---------------------------- MODULE Spec2Model ----------------------------
(***************************************************************************)
(* A model of crontinuous (src/crontinuous.go): a crontab file is parsed   *)
(* into Runnables that are registered with a cron scheduler; the file is   *)
(* watched and every write event reloads the whole job set; a fired        *)
(* Runnable spawns a process, copies its standard output into a fixed      *)
(* buffer and flushes the buffer periodically and on overflow.             *)
(*                                                                         *)
(* Strings are sequences of one-character strings, so that trimming,       *)
(* replacing and splitting are computed as the Go code computes them.      *)
(***************************************************************************)
EXTENDS Integers, Sequences, FiniteSets, TLC

(***************************************************************************)
(* Bounds of the model.                                                    *)
(***************************************************************************)
\* logBufferSize is 1024 * 512 in the source (src/crontinuous.go:26); the
\* model keeps the buffer logic and scales the capacity down.
logBufferSize == 4
\* bufio.MaxScanTokenSize is 64 * 1024 for the scanner of line 189: a line
\* that does not fit ends the scan with ErrTooLong.  Scaled down with the
\* buffer, and like in the source smaller than the buffer.
MaxScanTokenSize == 3
\* Executions (calls of Run) the scheduler starts in one behaviour of SpecRun.
MaxExec == 1
\* Writes of the crontab file in one behaviour of SpecRun.
MaxRunWrites == 1
\* Executions the scheduler starts in one behaviour of SpecOverlap.
MaxOverlap == 2
\* Flush goroutines ("go r.flush()") alive at the same time: the flushers
\* start one every logDelay second and none waits for the one before.
MaxFlush == 2
\* Writes of the crontab file in one behaviour.
MaxWrites == 2
\* Errors the file watcher reports in one behaviour.
MaxWatchErrors == 1
\* Lines a pipe holds before the writing process blocks.
PipeCap == 1

(***************************************************************************)
(* Strings.                                                                *)
(***************************************************************************)
Nil == 0

\* the zero byte make([]byte, n) fills a buffer with
NUL == "NUL"

SP == " "
TAB == "\t"
NL == "\n"

\* unicode.IsSpace for the characters the model uses
IsSpace(c) == c \in {" ", "\t", "\n", "\r"}

RECURSIVE TrimLeft(_)
TrimLeft(s) ==
    IF s = <<>> THEN <<>>
    ELSE IF IsSpace(Head(s)) THEN TrimLeft(Tail(s)) ELSE s

RECURSIVE TrimRight(_)
TrimRight(s) ==
    IF s = <<>> THEN <<>>
    ELSE IF IsSpace(s[Len(s)]) THEN TrimRight(SubSeq(s, 1, Len(s) - 1)) ELSE s

\* strings.TrimSpace
TrimSpace(s) == TrimRight(TrimLeft(s))

\* strings.HasPrefix(s, "#")
HasPrefixHash(s) == Len(s) >= 1 /\ s[1] = "#"

\* strings.NewReplacer("  ", " ", "\t", " ").Replace: one pass from the left,
\* matches do not overlap, the two-space pair is tried before the tab.
RECURSIVE Replace(_)
Replace(s) ==
    IF s = <<>> THEN <<>>
    ELSE IF Len(s) >= 2 /\ s[1] = SP /\ s[2] = SP
         THEN <<SP>> \o Replace(SubSeq(s, 3, Len(s)))
    ELSE IF s[1] = TAB THEN <<SP>> \o Replace(Tail(s))
    ELSE <<s[1]>> \o Replace(Tail(s))

\* index of the first space of s, 0 when there is none
RECURSIVE IndexSpace(_, _)
IndexSpace(s, i) ==
    IF i > Len(s) THEN 0
    ELSE IF s[i] = SP THEN i ELSE IndexSpace(s, i + 1)

\* strings.SplitN(s, " ", n) for n >= 1: at most n substrings, the last one
\* the unsplit remainder
RECURSIVE SplitN(_, _)
SplitN(s, n) ==
    LET i == IndexSpace(s, 1)
    IN  IF n <= 1 \/ i = 0 THEN <<s>>
        ELSE <<SubSeq(s, 1, i - 1)>> \o SplitN(SubSeq(s, i + 1, Len(s)), n - 1)

\* strings.Join(a, " ")
RECURSIVE Join(_)
Join(a) ==
    IF a = <<>> THEN <<>>
    ELSE IF Len(a) = 1 THEN a[1]
    ELSE a[1] \o <<SP>> \o Join(Tail(a))

\* index of the first occurrence of character c in s, 0 when there is none
RECURSIVE IndexOf(_, _, _)
IndexOf(s, c, i) ==
    IF i > Len(s) THEN 0
    ELSE IF s[i] = c THEN i ELSE IndexOf(s, c, i + 1)

\* strings.Split(s, c) for a one-character separator
RECURSIVE Split(_, _)
Split(s, c) ==
    LET i == IndexOf(s, c, 1)
    IN  IF i = 0 THEN <<s>>
        ELSE <<SubSeq(s, 1, i - 1)>> \o Split(SubSeq(s, i + 1, Len(s)), c)

\* index of the first white-space character of s, 0 when there is none
RECURSIVE IndexWs(_, _)
IndexWs(s, i) ==
    IF i > Len(s) THEN 0
    ELSE IF IsSpace(s[i]) THEN i ELSE IndexWs(s, i + 1)

\* strings.Fields: the maximal runs of non-space characters
RECURSIVE Fields(_)
Fields(s) ==
    LET t == TrimLeft(s)
        i == IndexWs(t, 1)
    IN  IF t = <<>> THEN <<>>
        ELSE IF i = 0 THEN <<t>>
        ELSE <<SubSeq(t, 1, i - 1)>> \o Fields(SubSeq(t, i + 1, Len(t)))

(***************************************************************************)
(* cron.Parse as AddJob (line 291) uses it: five or six fields, each a     *)
(* comma-separated list of ranges, a range being a star, a question mark   *)
(* or lo[-hi], each with an optional /step, within the field's bounds.     *)
(* Month and weekday names are not part of the model's alphabet.           *)
(***************************************************************************)
Digits == <<"0", "1", "2", "3", "4", "5", "6", "7", "8", "9">>

IsDigit(c) == \E d \in 1..10 : Digits[d] = c

DigitVal(c) == (CHOOSE d \in 1..10 : Digits[d] = c) - 1

IsNumber(s) == s # <<>> /\ \A i \in 1..Len(s) : IsDigit(s[i])

RECURSIVE NumVal(_)
NumVal(s) ==
    IF s = <<>> THEN 0
    ELSE NumVal(SubSeq(s, 1, Len(s) - 1)) * 10 + DigitVal(s[Len(s)])

\* getRange: one  lo[-hi][/step]  expression against the bounds lo..hi
RangeOK(expr, min, max) ==
    LET rangeAndStep == Split(expr, "/")
        lowAndHigh == Split(rangeAndStep[1], "-")
        star == lowAndHigh[1] = <<"*">> \/ lowAndHigh[1] = <<"?">>
        startOK == star \/ IsNumber(lowAndHigh[1])
        start == IF star THEN min ELSE NumVal(lowAndHigh[1])
        endOK ==
            CASE star -> TRUE
              [] Len(lowAndHigh) = 1 -> TRUE
              [] Len(lowAndHigh) = 2 -> IsNumber(lowAndHigh[2])
              [] OTHER -> FALSE
        end ==
            IF star THEN max
            ELSE IF Len(lowAndHigh) = 2 THEN NumVal(lowAndHigh[2])
            ELSE IF Len(rangeAndStep) = 2 THEN max
            ELSE start
        stepOK ==
            CASE Len(rangeAndStep) = 1 -> TRUE
              [] Len(rangeAndStep) = 2 ->
                    IsNumber(rangeAndStep[2]) /\ NumVal(rangeAndStep[2]) > 0
              [] OTHER -> FALSE
    IN  /\ startOK
        /\ endOK
        /\ stepOK
        /\ start >= min
        /\ end <= max
        /\ start <= end

\* getField: a comma-separated list of ranges
FieldOK(field, min, max) ==
    LET ranges == Split(field, ",")
    IN  \A i \in 1..Len(ranges) : RangeOK(ranges[i], min, max)

\* the bounds of second, minute, hour, day of month, month, day of week
FieldMin == <<0, 0, 0, 1, 1, 0>>
FieldMax == <<59, 59, 23, 31, 12, 6>>

\* cron.Parse(schedule) succeeds
ScheduleOK(schedule) ==
    LET fields == Fields(schedule)
    IN  /\ Len(fields) \in {5, 6}
        /\ \A i \in 1..Len(fields) : FieldOK(fields[i], FieldMin[i], FieldMax[i])

(***************************************************************************)
(* parseCrontabLine, lines 260-298, as a function of the line: what the    *)
(* call does ("skip": returns early, "panic": index out of range,          *)
(* "reject": AddJob fails, "add": the Runnable is registered) and the      *)
(* Runnable's fields.                                                      *)
(***************************************************************************)
\* lines 261-268: the line trimmed and normalized
Normalize(line) == Replace(TrimSpace(line))

\* line 263
Ignored(line) == Len(TrimSpace(line)) <= 0 \/ HasPrefixHash(TrimSpace(line))

\* line 280
Substrings(line) == SplitN(Normalize(line), 7)

\* a mutant of ArgsOf: the remainder is split again and its first word kept
ArgsOfFirstWord(substrings) ==
    IF Len(substrings) >= 7 THEN SplitN(substrings[7], 2)[1] ELSE <<>>

\* lines 279-285: substrings[6:7] joined.  SplitN allocates all seven slots,
\* so with six substrings the slice expression yields the empty seventh.
ArgsOf(substrings) ==
    IF Len(substrings) >= 7 THEN substrings[7] ELSE <<>>

\* a mutant of ScheduleOf: the seconds field is not put in front
ScheduleOfNoSeconds(substrings) == Join(SubSeq(substrings, 1, 5))

\* line 287
ScheduleOf(substrings) == <<"0", SP>> \o Join(SubSeq(substrings, 1, 5))

\* line 288: substrings[5] of Go, the sixth substring
CommandOf(substrings) == substrings[6]

\* a mutant of ParseOutcome: only fewer than four substrings are discarded
ParseOutcomeFourGoOn(line) ==
    IF Ignored(line) THEN "skip"
    ELSE IF Len(Substrings(line)) < 4 THEN "skip"
    ELSE IF Len(Substrings(line)) < 6 THEN "panic"
    ELSE IF ~ScheduleOK(ScheduleOf(Substrings(line))) THEN "reject"
    ELSE "add"

ParseOutcome(line) ==
    IF Ignored(line) THEN "skip"
    ELSE IF Len(Substrings(line)) < 5 THEN "skip"
    ELSE IF Len(Substrings(line)) < 6 THEN "panic"
    ELSE IF ~ScheduleOK(ScheduleOf(Substrings(line))) THEN "reject"
    ELSE "add"

\* createRunnable, lines 56-76.  ID is the SHA-1 of the command alone; the
\* model keeps the command as the ID.
createRunnable(command, args, schedule) ==
    [ID |-> command, Command |-> command, Args |-> args, Schedule |-> schedule,
     buffer |-> [i \in 1..logBufferSize |-> NUL], bufferPos |-> 0,
     isRunning |-> FALSE]

\* the Runnable parseCrontabLine builds at line 290
RunnableOf(line) ==
    createRunnable(CommandOf(Substrings(line)), ArgsOf(Substrings(line)),
                   ScheduleOf(Substrings(line)))

(***************************************************************************)
(* The crontab files of the model: every write of the file stores one of   *)
(* them.                                                                   *)
(***************************************************************************)
\* "* * * * * a"
LineA == <<"*", SP, "*", SP, "*", SP, "*", SP, "*", SP, "a">>
\* "*/5 * * * * b -v x"
LineB == <<"*", "/", "5", SP, "*", SP, "*", SP, "*", SP, "*", SP, "b", SP,
           "-", "v", SP, "x">>
\* "61 * * * * a": the minute is out of range
LineBadSchedule == <<"6", "1", SP, "*", SP, "*", SP, "*", SP, "*", SP, "a">>
\* "# a"
LineComment == <<"#", SP, "a">>
\* "* * * * *": five fields and no command
LineFiveFields == <<"*", SP, "*", SP, "*", SP, "*", SP, "*">>
\* "* * *"
LineShort == <<"*", SP, "*", SP, "*">>
\* " * *\t* * * c ": tabs and surrounding blanks
LineC == <<SP, "*", SP, "*", TAB, "*", SP, "*", SP, "*", SP, "c", SP>>

\* "* * * * * e"
LineE == <<"*", SP, "*", SP, "*", SP, "*", SP, "*", SP, "e">>
\* "* * * * * f"
LineF == <<"*", SP, "*", SP, "*", SP, "*", SP, "*", SP, "f">>

CrontabFiles ==
    { <<LineA, LineB, LineC>>,
      <<LineBadSchedule, LineA>>,
      <<LineComment, LineShort, LineB>>,
      <<LineFiveFields, LineA>> }

(***************************************************************************)
(* The state.                                                              *)
(***************************************************************************)
VARIABLES
    procState,      \* "up", or how the process ended: "exit", "fatal", "panic"
    pc,             \* where main, the watcher goroutine and the signal
                    \* goroutine are
    cronScheduler,  \* the package variable: a reference into scheds, or Nil
    scheds,         \* the cron.Cron objects made so far: running, entries
    runnables,      \* the Runnable objects made so far
    fileContent,    \* the lines of the crontab file
    fsOps,          \* file-system operations done on the crontab file
    watching,       \* watcher.Add has succeeded
    events,         \* watcher.Events: operations not yet received
    errors,         \* watcher.Errors: errors not yet received
    watchErrs,      \* errors the watcher has reported so far
    toRead,         \* per initCron call: the lines its scanner has read
                    \* from the file and not yet returned (its buffer)
    readLines,      \* per initCron call: the lines it has read (history)
    added,          \* per initCron call: the Runnables it registered (history)
    lastReload,     \* the last initCron call that returned (history)
    execs,          \* the calls of Run made so far, each with its process
    flushes,        \* the goroutines started by "go r.flush()"
    output,         \* per Runnable: the "command std output" records logged
    stored          \* per Runnable: the messages copied into its buffer
                    \* (history)

reloadVars == <<pc, cronScheduler, scheds, fileContent, fsOps, watching, events,
                errors, watchErrs, toRead, readLines, added, lastReload>>

runVars == <<execs, flushes, output, stored>>

vars == <<procState, runnables, reloadVars, runVars>>

\* the goroutines that call initCron
Callers == {"main", "watcher"}

\* cron.New(), lines 132 and 235
NewCron == [running |-> FALSE, entries |-> <<>>]

\* where a caller of initCron goes on when the call returns
ReturnPc(t) == IF t = "main" THEN "wait" ELSE "listen"

NoReload ==
    [by |-> "none", lines |-> <<>>, started |-> FALSE, sched |-> Nil,
     triggers |-> <<>>, added |-> <<>>]

\* the (schedule, command, arguments) of a Runnable
Trigger(r) == <<r.Schedule, r.Command, r.Args>>

\* the triggers registered in a scheduler, in the order of registration
Triggers(rs, sched) ==
    [i \in 1..Len(sched.entries) |-> Trigger(rs[sched.entries[i]])]

\* what the history keeps of a call of initCron by t that returns, leaving
\* the schedulers ss behind
Returned(t, ss, started) ==
    [by |-> t, lines |-> readLines[t], started |-> started,
     sched |-> cronScheduler,
     triggers |-> Triggers(runnables, ss[cronScheduler]),
     added |-> added[t]]

\* a slot of flushes that holds no goroutine
IdleFlush == [pc |-> "idle", job |-> Nil, pos |-> 0, text |-> <<>>]

Init ==
    /\ procState = "up"
    /\ pc = [main |-> "go", watcher |-> "off", signal |-> "off"]
    /\ cronScheduler = Nil
    /\ scheds = <<>>
    /\ runnables = <<>>
    /\ fileContent \in CrontabFiles
    /\ fsOps = 0
    /\ watching = FALSE
    /\ events = <<>>
    /\ errors = 0
    /\ watchErrs = 0
    /\ toRead = [t \in Callers |-> <<>>]
    /\ readLines = [t \in Callers |-> <<>>]
    /\ added = [t \in Callers |-> <<>>]
    /\ lastReload = NoReload
    /\ execs = <<>>
    /\ flushes = [k \in 1..MaxFlush |-> IdleFlush]
    /\ output = <<>>
    /\ stored = <<>>

\* the state after construction with the crontab file one of files
InitFrom(files) ==
    /\ procState = "up"
    /\ pc = [main |-> "go", watcher |-> "off", signal |-> "off"]
    /\ cronScheduler = Nil
    /\ scheds = <<>>
    /\ runnables = <<>>
    /\ fileContent \in files
    /\ fsOps = 0
    /\ watching = FALSE
    /\ events = <<>>
    /\ errors = 0
    /\ watchErrs = 0
    /\ toRead = [t \in Callers |-> <<>>]
    /\ readLines = [t \in Callers |-> <<>>]
    /\ added = [t \in Callers |-> <<>>]
    /\ lastReload = NoReload
    /\ execs = <<>>
    /\ flushes = [k \in 1..MaxFlush |-> IdleFlush]
    /\ output = <<>>
    /\ stored = <<>>

(***************************************************************************)
(* main, lines 107-135.                                                    *)
(***************************************************************************)
\* line 116: go watchCrontab()
MainGo ==
    /\ procState = "up"
    /\ pc.main = "go"
    /\ pc' = [pc EXCEPT !.main = "notify", !.watcher = "add"]
    /\ UNCHANGED <<procState, runnables, cronScheduler, scheds, fileContent,
                   fsOps, watching, events, errors, watchErrs, toRead,
                   readLines, added, lastReload, runVars>>

\* lines 118-130: the signal goroutine is started
MainNotify ==
    /\ procState = "up"
    /\ pc.main = "notify"
    /\ pc' = [pc EXCEPT !.main = "cron", !.signal = "ready"]
    /\ UNCHANGED <<procState, runnables, cronScheduler, scheds, fileContent,
                   fsOps, watching, events, errors, watchErrs, toRead,
                   readLines, added, lastReload, runVars>>

\* line 132: cronScheduler = cron.New(); line 133 calls initCron
MainNew ==
    /\ procState = "up"
    /\ pc.main = "cron"
    /\ scheds' = Append(scheds, NewCron)
    /\ cronScheduler' = Len(scheds) + 1
    /\ pc' = [pc EXCEPT !.main = "stop"]
    /\ UNCHANGED <<procState, runnables, fileContent, fsOps, watching, events,
                   errors, watchErrs, toRead, readLines, added, lastReload, runVars>>

(***************************************************************************)
(* The signal goroutine, lines 120-130.                                    *)
(***************************************************************************)
\* lines 121-125: an interrupt arrives; the scheduler is stopped
SignalStop ==
    /\ procState = "up"
    /\ pc.signal = "ready"
    /\ scheds' = IF cronScheduler # Nil
                 THEN [scheds EXCEPT ![cronScheduler].running = FALSE]
                 ELSE scheds
    /\ pc' = [pc EXCEPT !.signal = "exit"]
    /\ UNCHANGED <<procState, runnables, cronScheduler, fileContent, fsOps,
                   watching, events, errors, watchErrs, toRead, readLines,
                   added, lastReload, runVars>>

\* lines 126-128: os.Exit(0)
SignalExit ==
    /\ procState = "up"
    /\ pc.signal = "exit"
    /\ procState' = "exit"
    /\ UNCHANGED <<runnables, reloadVars, runVars>>

(***************************************************************************)
(* initCron, lines 230-258, called by t.                                   *)
(***************************************************************************)
\* line 232: cronScheduler.Stop(); Stop dereferences its receiver
InitCronStop(t) ==
    /\ procState = "up"
    /\ pc[t] = "stop"
    /\ IF cronScheduler = Nil
       THEN /\ procState' = "panic"
            /\ UNCHANGED <<scheds, pc>>
       ELSE /\ scheds' = [scheds EXCEPT ![cronScheduler].running = FALSE]
            /\ pc' = [pc EXCEPT ![t] = "new"]
            /\ UNCHANGED procState
    /\ UNCHANGED <<runnables, cronScheduler, fileContent, fsOps, watching,
                   events, errors, watchErrs, toRead, readLines, added, lastReload, runVars>>

\* line 235: cronScheduler = cron.New()
InitCronNew(t) ==
    /\ procState = "up"
    /\ pc[t] = "new"
    /\ scheds' = Append(scheds, NewCron)
    /\ cronScheduler' = Len(scheds) + 1
    /\ pc' = [pc EXCEPT ![t] = "open"]
    /\ UNCHANGED <<procState, runnables, fileContent, fsOps, watching, events,
                   errors, watchErrs, toRead, readLines, added, lastReload, runVars>>

\* the lines of a file from byte n on; every line of a file ends with a
\* newline, and a line cut by n yields its rest
RECURSIVE LinesFrom(_, _)
LinesFrom(lines, n) ==
    IF lines = <<>> THEN <<>>
    ELSE IF n = 0 THEN lines
    ELSE IF n >= Len(Head(lines)) + 1
         THEN LinesFrom(Tail(lines), n - Len(Head(lines)) - 1)
    ELSE <<SubSeq(Head(lines), n + 1, Len(Head(lines)))>> \o Tail(lines)

\* the bytes of lines, each with its newline
RECURSIVE Bytes(_)
Bytes(lines) ==
    IF lines = <<>> THEN 0 ELSE Len(Head(lines)) + 1 + Bytes(Tail(lines))

\* the offset of t's open file: the bytes its scanner has read so far
Offset(t) == Bytes(readLines[t] \o toRead[t])

\* line 246, scanner.Scan(): the lines the scanner of t's call has to
\* return.  While its buffer holds a line it reads nothing; when the
\* buffer is empty it reads the file as it is now, from its offset to the
\* end (a crontab is shorter than the buffer of 4096 bytes)
Pending(t) ==
    IF toRead[t] # <<>> THEN toRead[t] ELSE LinesFrom(fileContent, Offset(t))

\* lines 238-245: os.Open succeeds and the scanner is set up.  Nothing is
\* read here: the buffer is empty and the offset is 0
InitCronOpen(t) ==
    /\ procState = "up"
    /\ pc[t] = "open"
    /\ toRead' = [toRead EXCEPT ![t] = <<>>]
    /\ readLines' = [readLines EXCEPT ![t] = <<>>]
    /\ added' = [added EXCEPT ![t] = <<>>]
    /\ pc' = [pc EXCEPT ![t] = "scan"]
    /\ UNCHANGED <<procState, runnables, cronScheduler, scheds, fileContent,
                   fsOps, watching, events, errors, watchErrs, lastReload,
                   runVars>>

\* lines 239-242: os.Open fails, log.Fatal ends the process
InitCronOpenFails(t) ==
    /\ procState = "up"
    /\ pc[t] = "open"
    /\ procState' = "fatal"
    /\ UNCHANGED <<runnables, reloadVars, runVars>>

\* line 291: cronScheduler.AddJob(schedule, r) with a schedule cron.Parse
\* accepts: the entry is added to the scheduler cronScheduler refers to now
AddJob(ss, ref) ==
    [ss EXCEPT ![cronScheduler].entries = Append(@, ref)]

\* lines 246-247 and parseCrontabLine, lines 260-288: one line is scanned
\* and parsed, up to the decision whether a job is made of it
InitCronScan(t) ==
    /\ procState = "up"
    /\ pc[t] = "scan"
    /\ Pending(t) # <<>>
    /\ LET line == Head(Pending(t))
           outcome == ParseOutcome(line)
       IN  /\ toRead' = [toRead EXCEPT ![t] = Tail(Pending(t))]
           /\ readLines' = [readLines EXCEPT ![t] = Append(@, line)]
           /\ procState' = IF outcome = "panic" THEN "panic" ELSE procState
           /\ pc' = [pc EXCEPT ![t] = IF outcome = "add" THEN "addJob" ELSE "scan"]
    /\ UNCHANGED <<runnables, scheds, added, cronScheduler, fileContent, fsOps,
                   watching, events, errors, watchErrs, lastReload, runVars>>

\* lines 290-291: the Runnable of the line scanned last is created and
\* added to the scheduler cronScheduler refers to now
InitCronAddJob(t) ==
    /\ procState = "up"
    /\ pc[t] = "addJob"
    /\ LET line == readLines[t][Len(readLines[t])]
       IN  /\ runnables' = Append(runnables, RunnableOf(line))
           /\ output' = Append(output, <<>>)
           /\ stored' = Append(stored, <<>>)
           /\ scheds' = AddJob(scheds, Len(runnables) + 1)
           /\ added' = [added EXCEPT ![t] = Append(@, Len(runnables) + 1)]
    /\ pc' = [pc EXCEPT ![t] = "scan"]
    /\ UNCHANGED <<procState, cronScheduler, fileContent, fsOps, watching,
                   events, errors, watchErrs, toRead, readLines, lastReload,
                   execs, flushes>>

\* lines 250-253: the scanner stopped on a read error; initCron returns
InitCronScanErr(t) ==
    /\ procState = "up"
    /\ pc[t] = "scan"
    /\ pc' = [pc EXCEPT ![t] = ReturnPc(t)]
    /\ lastReload' = Returned(t, scheds, FALSE)
    /\ UNCHANGED <<procState, runnables, cronScheduler, scheds, fileContent,
                   fsOps, watching, events, errors, watchErrs, toRead,
                   readLines, added, runVars>>

\* line 246: Scan finds no further line in the file and the loop ends
InitCronEOF(t) ==
    /\ procState = "up"
    /\ pc[t] = "scan"
    /\ Pending(t) = <<>>
    /\ pc' = [pc EXCEPT ![t] = "start"]
    /\ UNCHANGED <<procState, runnables, cronScheduler, scheds, fileContent,
                   fsOps, watching, events, errors, watchErrs, toRead,
                   readLines, added, lastReload, runVars>>

\* line 257: the scheduler cronScheduler refers to now is started
InitCronStart(t) ==
    /\ procState = "up"
    /\ pc[t] = "start"
    /\ scheds' = [scheds EXCEPT ![cronScheduler].running = TRUE]
    /\ pc' = [pc EXCEPT ![t] = ReturnPc(t)]
    /\ lastReload' = Returned(t, scheds, TRUE)
    /\ UNCHANGED <<procState, runnables, cronScheduler, fileContent, fsOps,
                   watching, events, errors, watchErrs, toRead, readLines, added, runVars>>

(***************************************************************************)
(* watchCrontab, lines 300-328, and the file system.                       *)
(***************************************************************************)
\* lines 323-327: watcher.Add succeeds
WatcherAdd ==
    /\ procState = "up"
    /\ pc.watcher = "add"
    /\ watching' = TRUE
    /\ pc' = [pc EXCEPT !.watcher = "listen"]
    /\ UNCHANGED <<procState, runnables, cronScheduler, scheds, fileContent,
                   fsOps, events, errors, watchErrs, toRead, readLines,
                   added, lastReload, runVars>>

\* lines 324-326: watcher.Add fails, log.Fatal ends the process
WatcherAddFails ==
    /\ procState = "up"
    /\ pc.watcher = "add"
    /\ procState' = "fatal"
    /\ UNCHANGED <<runnables, reloadVars, runVars>>

\* lines 312-316: an event is received; a write event calls initCron
WatcherEvent ==
    /\ procState = "up"
    /\ pc.watcher = "listen"
    /\ events # <<>>
    /\ events' = Tail(events)
    /\ pc' = [pc EXCEPT !.watcher = IF Head(events) = "write" THEN "stop"
                                    ELSE "listen"]
    /\ UNCHANGED <<procState, runnables, cronScheduler, scheds, fileContent,
                   fsOps, watching, errors, watchErrs, toRead, readLines,
                   added, lastReload, runVars>>

\* a mutant of WatcherError: an error makes the watcher reload
WatcherErrorReloads ==
    /\ procState = "up"
    /\ pc.watcher = "listen"
    /\ errors > 0
    /\ errors' = errors - 1
    /\ pc' = [pc EXCEPT !.watcher = "stop"]
    /\ UNCHANGED <<procState, runnables, cronScheduler, scheds, fileContent,
                   fsOps, watching, events, watchErrs, toRead, readLines,
                   added, lastReload, runVars>>

\* lines 317-318: an error is received and logged
WatcherError ==
    /\ procState = "up"
    /\ pc.watcher = "listen"
    /\ errors > 0
    /\ errors' = errors - 1
    /\ UNCHANGED <<procState, runnables, pc, cronScheduler, scheds, fileContent,
                   fsOps, watching, events, watchErrs, toRead, readLines,
                   added, lastReload, runVars>>

\* the crontab file is written in place; a watched file yields a write
\* event.  A call of initCron that has the file open reads the new content
\* at its next read (Pending)
WriteFile(f) ==
    /\ procState = "up"
    /\ fsOps < MaxWrites
    /\ fsOps' = fsOps + 1
    /\ fileContent' = f
    /\ events' = IF watching THEN Append(events, "write") ELSE events
    /\ UNCHANGED <<procState, runnables, pc, cronScheduler, scheds, watching,
                   errors, watchErrs, toRead, readLines, added, lastReload,
                   runVars>>

\* the mode of the crontab file is changed: an event that is no write
ChmodFile ==
    /\ procState = "up"
    /\ watching
    /\ fsOps < MaxWrites
    /\ fsOps' = fsOps + 1
    /\ events' = Append(events, "chmod")
    /\ UNCHANGED <<procState, runnables, pc, cronScheduler, scheds, fileContent,
                   watching, errors, watchErrs, toRead, readLines, added, lastReload, runVars>>

\* the watcher reports an error of its own
WatchFails ==
    /\ procState = "up"
    /\ watching
    /\ watchErrs < MaxWatchErrors
    /\ watchErrs' = watchErrs + 1
    /\ errors' = errors + 1
    /\ UNCHANGED <<procState, runnables, pc, cronScheduler, scheds, fileContent,
                   fsOps, watching, events, toRead, readLines, added, lastReload, runVars>>

(***************************************************************************)
(* The processes Run spawns.  What a command writes is fixed by the        *)
(* command: a sequence of lines, each to standard output or to standard    *)
(* error.  exec.LookPath finds the commands a, b, d, e and f.              *)
(***************************************************************************)
\* a line whose message (the line and its newline) alone exceeds the buffer
OversizeLine == [i \in 1..logBufferSize |-> "x"]

\* a line whose message fits the buffer but not behind a two-byte message
LongLine == [i \in 1..(logBufferSize - 2) |-> "b"]

Out(line) == [stream |-> "out", line |-> line]
Err(line) == [stream |-> "err", line |-> line]

Script(command) ==
    CASE command = <<"a">> -> <<Out(<<"a">>), Err(<<"e">>), Out(LongLine)>>
      [] command = <<"b">> -> <<Out(OversizeLine), Out(<<"a">>)>>
      [] command = <<"e">> -> <<Out(LongLine)>>
      [] command = <<"f">> -> <<Out(<<"a">>), Out(LongLine)>>
      [] command = <<"d">> ->
            [i \in 1..(PipeCap + 2) |->
                IF i <= PipeCap + 1 THEN Err(<<"e">>) ELSE Out(<<"a">>)]
      [] OTHER -> <<>>

\* line 145: exec.LookPath(r.Command) succeeds
LookPathOK(command) ==
    command \in {<<"a">>, <<"b">>, <<"d">>, <<"e">>, <<"f">>}

(***************************************************************************)
(* Runnable.Run, lines 142-224: execution e.                               *)
(***************************************************************************)
NewExec(ref) ==
    [job |-> ref, pc |-> "lookpath", child |-> "none", script |-> <<>>,
     outPipe |-> <<>>, errPipe |-> <<>>, message |-> <<>>, tmp |-> 0,
     pos |-> 0, copied |-> 0, text |-> <<>>, fl |-> "none", scanErr |-> FALSE,
     ovf |-> FALSE, pre |-> <<>>]

\* the cron scheduler s is running and entry i is due: "go e.Job.Run()"
Fire(s, i) ==
    /\ procState = "up"
    /\ scheds[s].running
    /\ execs' = Append(execs, NewExec(scheds[s].entries[i]))
    /\ UNCHANGED <<procState, runnables, reloadVars, flushes, output, stored>>

\* a mutant of ExecLookPath: the running flag is set before the command is
\* looked up
ExecLookPathSetsRunning(e) ==
    /\ procState = "up"
    /\ execs[e].pc = "lookpath"
    /\ runnables' = [runnables EXCEPT ![execs[e].job].isRunning = TRUE]
    /\ execs' = [execs EXCEPT ![e].pc =
                    IF LookPathOK(runnables[execs[e].job].Command)
                    THEN "pipes" ELSE "done"]
    /\ UNCHANGED <<procState, reloadVars, flushes, output, stored>>

\* lines 145-149: the command is looked up; Run returns when it is not found
ExecLookPath(e) ==
    /\ procState = "up"
    /\ execs[e].pc = "lookpath"
    /\ execs' = [execs EXCEPT ![e].pc =
                    IF LookPathOK(runnables[execs[e].job].Command)
                    THEN "pipes" ELSE "done"]
    /\ UNCHANGED <<procState, runnables, reloadVars, flushes, output, stored>>

\* lines 152-178: the command is built and its pipes are made
ExecPipes(e) ==
    /\ procState = "up"
    /\ execs[e].pc = "pipes"
    /\ execs' = [execs EXCEPT ![e].pc = "run"]
    /\ UNCHANGED <<procState, runnables, reloadVars, flushes, output, stored>>

\* lines 170-178: StdoutPipe or StderrPipe fails, log.Fatal ends the process
ExecPipesFail(e) ==
    /\ procState = "up"
    /\ execs[e].pc = "pipes"
    /\ procState' = "fatal"
    /\ UNCHANGED <<runnables, reloadVars, runVars>>

\* lines 181-182: r.isRunning = true; go r.flushBufferPeriodically()
ExecSetRunning(e) ==
    /\ procState = "up"
    /\ execs[e].pc = "run"
    /\ runnables' = [runnables EXCEPT ![execs[e].job].isRunning = TRUE]
    /\ execs' = [execs EXCEPT ![e].pc = "start", ![e].fl = "check"]
    /\ UNCHANGED <<procState, reloadVars, flushes, output, stored>>

\* line 183: cmd.Start() starts the process
ExecStart(e) ==
    /\ procState = "up"
    /\ execs[e].pc = "start"
    /\ execs' = [execs EXCEPT ![e].pc = "scan", ![e].child = "running",
                              ![e].script = Script(runnables[execs[e].job].Command)]
    /\ UNCHANGED <<procState, runnables, reloadVars, flushes, output, stored>>

\* lines 183-186: cmd.Start() fails; the error is logged and Run goes on
\* with pipes nobody writes to
ExecStartFails(e) ==
    /\ procState = "up"
    /\ execs[e].pc = "start"
    /\ execs' = [execs EXCEPT ![e].pc = "scan", ![e].child = "failed"]
    /\ UNCHANGED <<procState, runnables, reloadVars, flushes, output, stored>>

\* the process is gone, or was never started
ChildGone(x) == x.child \in {"exited", "failed"}

\* the process writes its next line; a full pipe blocks it
ChildWrite(e) ==
    /\ procState = "up"
    /\ execs[e].child = "running"
    /\ execs[e].script # <<>>
    /\ LET op == Head(execs[e].script)
       IN  IF op.stream = "out"
           THEN /\ Len(execs[e].outPipe) < PipeCap
                /\ execs' = [execs EXCEPT ![e].script = Tail(@),
                                          ![e].outPipe = Append(@, op.line)]
           ELSE /\ Len(execs[e].errPipe) < PipeCap
                /\ execs' = [execs EXCEPT ![e].script = Tail(@),
                                          ![e].errPipe = Append(@, op.line)]
    /\ UNCHANGED <<procState, runnables, reloadVars, flushes, output, stored>>

\* the process has written everything and exits
ChildExit(e) ==
    /\ procState = "up"
    /\ execs[e].child = "running"
    /\ execs[e].script = <<>>
    /\ execs' = [execs EXCEPT ![e].child = "exited"]
    /\ UNCHANGED <<procState, runnables, reloadVars, flushes, output, stored>>

\* lines 189-192 and 203-206: scanner.Scan().  A line that does not fit the
\* scanner's buffer ends the scan with ErrTooLong and stays unread; the end
\* of the stream ends it too, and so does the read of a pipe that the
\* failed cmd.Start() has closed, which the scanner reports as its error.
ExecScan(e) ==
    /\ procState = "up"
    /\ execs[e].pc = "scan"
    /\ IF execs[e].outPipe # <<>>
       THEN LET line == Head(execs[e].outPipe)
            IN  IF Len(line) + 1 > MaxScanTokenSize
                THEN execs' = [execs EXCEPT ![e].pc = "stderr",
                                            ![e].scanErr = TRUE]
                ELSE execs' = [execs EXCEPT ![e].pc = "check",
                                            ![e].outPipe = Tail(@),
                                            ![e].message = line \o <<NL>>]
       ELSE /\ ChildGone(execs[e])
            /\ execs' = [execs EXCEPT ![e].pc = "stderr",
                            ![e].scanErr = (execs[e].child = "failed")]
    /\ UNCHANGED <<procState, runnables, reloadVars, flushes, output, stored>>

\* line 193
TooLarge(length) == length > logBufferSize

\* line 197
Overflows(length, bufferPos) == (length + bufferPos) > logBufferSize

\* the bytes of the buffer below the cursor
Region(r) ==
    SubSeq(r.buffer, 1, IF r.bufferPos <= logBufferSize THEN r.bufferPos
                        ELSE logBufferSize)

\* lines 192-199: the two length checks
ExecCheck(e) ==
    /\ procState = "up"
    /\ execs[e].pc = "check"
    /\ LET r == runnables[execs[e].job]
           length == Len(execs[e].message)
       IN  execs' = [execs EXCEPT
               ![e].pc = IF TooLarge(length) THEN "scan"
                         ELSE IF Overflows(length, r.bufferPos) THEN "flush"
                         ELSE "slice",
               ![e].message = IF TooLarge(length) THEN <<>> ELSE @,
               ![e].ovf = ~TooLarge(length) /\ Overflows(length, r.bufferPos),
               ![e].pre = IF ~TooLarge(length) /\ Overflows(length, r.bufferPos)
                          THEN Region(r) ELSE <<>>]
    /\ UNCHANGED <<procState, runnables, reloadVars, flushes, output, stored>>

(***************************************************************************)
(* Runnable.flush, lines 85-92, one step per access of the Runnable.  It   *)
(* is called by Run (line 198) and run by the goroutines of line 81.       *)
(***************************************************************************)
\* line 86: bufferPos == 0
FlushSkips(r) == r.bufferPos = 0

\* line 89: r.buffer[0:r.bufferPos] is within the buffer
SliceOK(r) == r.bufferPos <= logBufferSize

\* line 89: strings.TrimSpace(string(r.buffer[0:pos])), pos the cursor that
\* was loaded for the slice.  string(...) copies the bytes one after the
\* other, each as the buffer holds it at that moment: text is what has been
\* copied so far, the result is text with the next byte, trimmed once the
\* last byte has been copied
FlushText(r, pos, text) ==
    LET bytes == IF Len(text) < pos
                 THEN Append(text, r.buffer[Len(text) + 1]) ELSE text
    IN  IF Len(bytes) >= pos THEN TrimSpace(bytes) ELSE bytes

\* line 90
FlushReset(r) == [r EXCEPT !.bufferPos = 0]

\* line 86, called from Run
ExecFlushTest(e) ==
    /\ procState = "up"
    /\ execs[e].pc = "flush"
    /\ execs' = [execs EXCEPT ![e].pc =
                    IF FlushSkips(runnables[execs[e].job]) THEN "slice"
                    ELSE "flushSlice"]
    /\ UNCHANGED <<procState, runnables, reloadVars, flushes, output, stored>>

\* line 89, called from Run: r.buffer[0:r.bufferPos] loads the cursor and
\* checks it against the capacity
ExecFlushSlice(e) ==
    /\ procState = "up"
    /\ execs[e].pc = "flushSlice"
    /\ IF SliceOK(runnables[execs[e].job])
       THEN /\ execs' = [execs EXCEPT ![e].pc = "flushRead",
                            ![e].pos = runnables[execs[e].job].bufferPos]
            /\ UNCHANGED procState
       ELSE /\ procState' = "panic"
            /\ UNCHANGED execs
    /\ UNCHANGED <<runnables, reloadVars, flushes, output, stored>>

\* line 89, called from Run: string(...) copies the next byte of the slice;
\* behind the last byte the text is trimmed
ExecFlushRead(e) ==
    /\ procState = "up"
    /\ execs[e].pc = "flushRead"
    /\ LET text == FlushText(runnables[execs[e].job], execs[e].pos,
                             execs[e].text)
       IN  IF Len(execs[e].text) + 1 >= execs[e].pos
           THEN execs' = [execs EXCEPT ![e].pc = "flushReset", ![e].pos = 0,
                                       ![e].text = text]
           ELSE execs' = [execs EXCEPT ![e].text = text]
    /\ UNCHANGED <<procState, runnables, reloadVars, flushes, output, stored>>

\* line 90, called from Run
ExecFlushReset(e) ==
    /\ procState = "up"
    /\ execs[e].pc = "flushReset"
    /\ runnables' = [runnables EXCEPT ![execs[e].job] = FlushReset(@)]
    /\ execs' = [execs EXCEPT ![e].pc = "flushEmit"]
    /\ UNCHANGED <<procState, reloadVars, flushes, output, stored>>

\* line 91, called from Run
ExecFlushEmit(e) ==
    /\ procState = "up"
    /\ execs[e].pc = "flushEmit"
    /\ output' = [output EXCEPT ![execs[e].job] = Append(@, execs[e].text)]
    /\ execs' = [execs EXCEPT ![e].pc = "slice", ![e].text = <<>>]
    /\ UNCHANGED <<procState, runnables, reloadVars, flushes, stored>>

\* line 200: copy(r.buffer[pos:], message) copies what fits, one byte after
\* the other; n bytes have been copied and the next one is written
CopyInto(buffer, pos, message, n) ==
    [buffer EXCEPT ![pos + n + 1] = message[n + 1]]

\* line 200: r.buffer[r.bufferPos:] loads the cursor and checks it against
\* the capacity
ExecSlice(e) ==
    /\ procState = "up"
    /\ execs[e].pc = "slice"
    /\ IF SliceOK(runnables[execs[e].job])
       THEN /\ execs' = [execs EXCEPT ![e].pc = "copy",
                            ![e].pos = runnables[execs[e].job].bufferPos]
            /\ UNCHANGED procState
       ELSE /\ procState' = "panic"
            /\ UNCHANGED execs
    /\ UNCHANGED <<runnables, reloadVars, flushes, output, stored>>

\* line 200: copy(...) writes the next byte of the message into the slice;
\* it ends when the message or the slice is at its end
ExecCopy(e) ==
    /\ procState = "up"
    /\ execs[e].pc = "copy"
    /\ LET room == logBufferSize - execs[e].pos
           count == IF Len(execs[e].message) < room
                    THEN Len(execs[e].message) ELSE room
       IN  IF count = 0
           THEN /\ execs' = [execs EXCEPT ![e].pc = "load", ![e].pos = 0]
                /\ UNCHANGED runnables
           ELSE /\ runnables' = [runnables EXCEPT ![execs[e].job].buffer =
                        CopyInto(@, execs[e].pos, execs[e].message,
                                 execs[e].copied)]
                /\ execs' = IF execs[e].copied + 1 = count
                            THEN [execs EXCEPT ![e].pc = "load",
                                               ![e].pos = 0, ![e].copied = 0]
                            ELSE [execs EXCEPT ![e].copied = @ + 1]
    /\ UNCHANGED <<procState, reloadVars, flushes, output, stored>>

\* line 201, r.bufferPos += length: the read
ExecLoad(e) ==
    /\ procState = "up"
    /\ execs[e].pc = "load"
    /\ execs' = [execs EXCEPT ![e].pc = "store",
                              ![e].tmp = runnables[execs[e].job].bufferPos]
    /\ UNCHANGED <<procState, runnables, reloadVars, flushes, output, stored>>

\* line 201, r.bufferPos += length: the write
ExecStore(e) ==
    /\ procState = "up"
    /\ execs[e].pc = "store"
    /\ runnables' = [runnables EXCEPT ![execs[e].job].bufferPos =
                        execs[e].tmp + Len(execs[e].message)]
    /\ stored' = [stored EXCEPT ![execs[e].job] = Append(@, execs[e].message)]
    /\ execs' = [execs EXCEPT ![e].pc = "scan", ![e].tmp = 0]
    /\ UNCHANGED <<procState, reloadVars, flushes, output>>

\* lines 209-216: the lines of standard error are read and logged, up to
\* the end of the stream
ExecStderr(e) ==
    /\ procState = "up"
    /\ execs[e].pc = "stderr"
    /\ IF execs[e].errPipe # <<>>
       THEN execs' = [execs EXCEPT ![e].errPipe = Tail(@)]
       ELSE /\ ChildGone(execs[e])
            /\ execs' = [execs EXCEPT ![e].pc = "wait"]
    /\ UNCHANGED <<procState, runnables, reloadVars, flushes, output, stored>>

\* lines 218-223: cmd.Wait() returns; r.isRunning = false
ExecClear(e) ==
    /\ procState = "up"
    /\ execs[e].pc = "wait"
    /\ ChildGone(execs[e])
    /\ runnables' = [runnables EXCEPT ![execs[e].job].isRunning = FALSE]
    /\ execs' = [execs EXCEPT ![e].pc = "done"]
    /\ UNCHANGED <<procState, reloadVars, flushes, output, stored>>

(***************************************************************************)
(* flushBufferPeriodically, lines 78-83, started by execution e.           *)
(***************************************************************************)
\* a mutant of FlusherCheck: the loop goes on whatever the flag is
FlusherCheckIgnoresFlag(e) ==
    /\ procState = "up"
    /\ execs[e].fl = "check"
    /\ execs' = [execs EXCEPT ![e].fl = "sleep"]
    /\ UNCHANGED <<procState, runnables, reloadVars, flushes, output, stored>>

\* line 79: for r.isRunning
FlusherCheck(e) ==
    /\ procState = "up"
    /\ execs[e].fl = "check"
    /\ execs' = [execs EXCEPT ![e].fl =
                    IF runnables[execs[e].job].isRunning THEN "sleep"
                    ELSE "done"]
    /\ UNCHANGED <<procState, runnables, reloadVars, flushes, output, stored>>

\* lines 80-81: the sleep is over; go r.flush()
FlusherSpawn(e) ==
    /\ procState = "up"
    /\ execs[e].fl = "sleep"
    /\ \E k \in 1..MaxFlush :
          /\ flushes[k].pc = "idle"
          /\ \A j \in 1..(k - 1) : flushes[j].pc # "idle"
          /\ flushes' = [flushes EXCEPT ![k] =
                            [pc |-> "test", job |-> execs[e].job, pos |-> 0,
                             text |-> <<>>]]
    /\ execs' = [execs EXCEPT ![e].fl = "check"]
    /\ UNCHANGED <<procState, runnables, reloadVars, output, stored>>

\* line 86, in goroutine k
FlushTest(k) ==
    /\ procState = "up"
    /\ flushes[k].pc = "test"
    /\ flushes' = [flushes EXCEPT ![k] =
                      IF FlushSkips(runnables[flushes[k].job]) THEN IdleFlush
                      ELSE [@ EXCEPT !.pc = "slice"]]
    /\ UNCHANGED <<procState, runnables, reloadVars, execs, output, stored>>

\* line 89, in goroutine k: r.buffer[0:r.bufferPos] loads the cursor and
\* checks it against the capacity
FlushSlice(k) ==
    /\ procState = "up"
    /\ flushes[k].pc = "slice"
    /\ IF SliceOK(runnables[flushes[k].job])
       THEN /\ flushes' = [flushes EXCEPT ![k].pc = "read",
                              ![k].pos = runnables[flushes[k].job].bufferPos]
            /\ UNCHANGED procState
       ELSE /\ procState' = "panic"
            /\ UNCHANGED flushes
    /\ UNCHANGED <<runnables, reloadVars, execs, output, stored>>

\* line 89, in goroutine k: string(...) copies the next byte of the slice;
\* behind the last byte the text is trimmed
FlushRead(k) ==
    /\ procState = "up"
    /\ flushes[k].pc = "read"
    /\ LET text == FlushText(runnables[flushes[k].job], flushes[k].pos,
                             flushes[k].text)
       IN  IF Len(flushes[k].text) + 1 >= flushes[k].pos
           THEN flushes' = [flushes EXCEPT ![k].pc = "reset", ![k].pos = 0,
                                           ![k].text = text]
           ELSE flushes' = [flushes EXCEPT ![k].text = text]
    /\ UNCHANGED <<procState, runnables, reloadVars, execs, output, stored>>

\* line 90, in goroutine k
FlushResetPos(k) ==
    /\ procState = "up"
    /\ flushes[k].pc = "reset"
    /\ runnables' = [runnables EXCEPT ![flushes[k].job] = FlushReset(@)]
    /\ flushes' = [flushes EXCEPT ![k].pc = "emit"]
    /\ UNCHANGED <<procState, reloadVars, execs, output, stored>>

\* line 91, in goroutine k
FlushEmit(k) ==
    /\ procState = "up"
    /\ flushes[k].pc = "emit"
    /\ output' = [output EXCEPT ![flushes[k].job] = Append(@, flushes[k].text)]
    /\ flushes' = [flushes EXCEPT ![k] = IdleFlush]
    /\ UNCHANGED <<procState, runnables, reloadVars, execs, stored>>

(***************************************************************************)
(* The program.                                                            *)
(***************************************************************************)
\* a step of execution e, of its process or of its periodic flusher
RunStep(e) ==
    \/ ExecLookPath(e)
    \/ ExecPipes(e)
    \/ ExecSetRunning(e)
    \/ ExecStart(e)
    \/ ChildWrite(e)
    \/ ChildExit(e)
    \/ ExecScan(e)
    \/ ExecCheck(e)
    \/ ExecFlushTest(e)
    \/ ExecFlushSlice(e)
    \/ ExecFlushRead(e)
    \/ ExecFlushReset(e)
    \/ ExecFlushEmit(e)
    \/ ExecSlice(e)
    \/ ExecCopy(e)
    \/ ExecLoad(e)
    \/ ExecStore(e)
    \/ ExecStderr(e)
    \/ ExecClear(e)
    \/ FlusherCheck(e)

\* a step of flush goroutine k
FlushStep(k) ==
    \/ FlushTest(k)
    \/ FlushSlice(k)
    \/ FlushRead(k)
    \/ FlushResetPos(k)
    \/ FlushEmit(k)

\* a step of initCron that does not end the process by an error of the
\* file system
InitCronStep(t) ==
    \/ InitCronStop(t)
    \/ InitCronNew(t)
    \/ InitCronOpen(t)
    \/ InitCronScan(t)
    \/ InitCronAddJob(t)
    \/ InitCronEOF(t)
    \/ InitCronStart(t)

Next ==
    \/ MainGo
    \/ MainNotify
    \/ MainNew
    \/ SignalStop
    \/ SignalExit
    \/ \E t \in Callers : InitCronStep(t)
    \/ \E t \in Callers : InitCronOpenFails(t)
    \/ \E t \in Callers : InitCronScanErr(t)
    \/ WatcherAdd
    \/ WatcherAddFails
    \/ WatcherEvent
    \/ WatcherError
    \/ \E f \in CrontabFiles : WriteFile(f)
    \/ ChmodFile
    \/ WatchFails
    \/ /\ Len(execs) < MaxOverlap
       /\ \E s \in 1..Len(scheds) : \E i \in 1..Len(scheds[s].entries) : Fire(s, i)
    \/ \E e \in 1..Len(execs) : RunStep(e)
    \/ \E e \in 1..Len(execs) : ExecPipesFail(e) \/ ExecStartFails(e)
    \/ \E e \in 1..Len(execs) : FlusherSpawn(e)
    \/ \E k \in 1..MaxFlush : FlushStep(k)

Spec == Init /\ [][Next]_vars

(***************************************************************************)
(* The reloads alone: main's startup load, the watcher's reloads and the   *)
(* interrupt, with no job fired.                                           *)
(***************************************************************************)
NextReload ==
    \/ MainGo
    \/ MainNotify
    \/ MainNew
    \/ SignalStop
    \/ SignalExit
    \/ \E t \in Callers : InitCronStep(t)
    \/ \E t \in Callers : InitCronOpenFails(t)
    \/ \E t \in Callers : InitCronScanErr(t)
    \/ WatcherAdd
    \/ WatcherAddFails
    \/ WatcherEvent
    \/ \E f \in CrontabFiles : WriteFile(f)

SpecReload == Init /\ [][NextReload]_vars

(***************************************************************************)
(* The jobs of one crontab file run, one execution after the other, with   *)
(* the periodic flusher and the flush goroutines; the file is not written  *)
(* again.  The file system and the process creation do not fail.           *)
(***************************************************************************)
RunFile == <<LineA, LineB, LineC>>

InitRun == Init /\ fileContent = RunFile

NextRun ==
    \/ MainGo
    \/ MainNotify
    \/ MainNew
    \/ InitCronStep("main")
    \/ WatcherAdd
    \/ /\ Len(execs) < MaxExec
       /\ \E s \in 1..Len(scheds) : \E i \in 1..Len(scheds[s].entries) : Fire(s, i)
    \/ \E e \in 1..Len(execs) : RunStep(e)
    \/ \E e \in 1..Len(execs) : FlusherSpawn(e)
    \/ \E k \in 1..MaxFlush : FlushStep(k)

SpecRun == InitRun /\ [][NextRun]_vars

(***************************************************************************)
(* One job fired again while it runs: the executions overlap, each with    *)
(* its periodic flusher.  The jobs are e, which prints one line, and c,    *)
(* whose command is not found.                                             *)
(***************************************************************************)
InitOverlap == InitFrom({<<LineE, LineC>>})

NextOverlap ==
    \/ MainGo
    \/ MainNotify
    \/ MainNew
    \/ \E t \in Callers : InitCronStep(t)
    \/ WatcherAdd
    \/ /\ Len(execs) < MaxOverlap
       /\ \E s \in 1..Len(scheds) : \E i \in 1..Len(scheds[s].entries) : Fire(s, i)
    \/ \E e \in 1..Len(execs) : RunStep(e)
    \/ \E e \in 1..Len(execs) : FlusherSpawn(e)
    \/ \E k \in 1..MaxFlush : FlushStep(k)

SpecOverlap == InitOverlap /\ [][NextOverlap]_vars

(***************************************************************************)
(* The job f, which prints the line a and then a line that does not fit    *)
(* behind it, fired again while its first execution handles the second     *)
(* line (lines 197-201); the process of the second execution has not yet   *)
(* written its last line, and a periodic flush has returned when the next  *)
(* one is started.                                                         *)
(***************************************************************************)
InitOverflow == InitFrom({<<LineF>>})

\* execution e is in lines 197-201 with a message that met a too full buffer
InOverflow(e) ==
    /\ execs[e].ovf
    /\ execs[e].pc \in {"flush", "flushSlice", "flushRead", "flushReset",
                        "flushEmit", "slice", "copy", "load", "store"}

\* the process of execution e, when it runs, has a line left to write
LastLineToCome(e) ==
    execs[e].child = "running" => execs[e].script # <<>>

NextOverflow ==
    \/ MainGo
    \/ MainNotify
    \/ MainNew
    \/ InitCronStep("main")
    \/ /\ Len(execs) < MaxOverlap
       /\ \A e \in 1..Len(execs) : InOverflow(e)
       /\ \E s \in 1..Len(scheds) : \E i \in 1..Len(scheds[s].entries) : Fire(s, i)
    \/ \E e \in 1..Len(execs) : RunStep(e) /\ (e > 1 => LastLineToCome(e)')
    \/ /\ \A k \in 1..MaxFlush : flushes[k].pc = "idle"
       /\ \E e \in 1..Len(execs) : FlusherSpawn(e)
    \/ \E k \in 1..MaxFlush : FlushStep(k)

SpecOverflow == InitOverflow /\ [][NextOverflow]_vars

(***************************************************************************)
(* The claims about reloads.                                               *)
(***************************************************************************)
\* the triggers parseCrontabLine registers for the lines, in their order
RECURSIVE ExpectedTriggers(_)
ExpectedTriggers(lines) ==
    IF lines = <<>> THEN <<>>
    ELSE (IF ParseOutcome(Head(lines)) = "add"
          THEN <<Trigger(RunnableOf(Head(lines)))>> ELSE <<>>)
         \o ExpectedTriggers(Tail(lines))

\* this step is the return of the call of initCron by t
Returns(t) == pc[t] \in {"scan", "start"} /\ pc'[t] = ReturnPc(t)

\* C1: when a reload returns, the triggers registered in the scheduler that
\* cronScheduler refers to are exactly those of the valid lines the reload
\* read, in the order of the file.
C1_ReloadRegistersWhatItRead ==
    [][\A t \in Callers :
          Returns(t) =>
              Triggers(runnables', scheds'[cronScheduler'])
                  = ExpectedTriggers(readLines[t])]_vars

\* C2: every running scheduler is the one cronScheduler refers to, so at
\* most one scheduler is running.
C2_OnlyTheActiveSchedulerRuns ==
    \A s \in 1..Len(scheds) : scheds[s].running => s = cronScheduler

\* C3: when a reload returns that read the same lines as the reload that
\* returned before it, the active scheduler holds the same triggers as after
\* that reload, one for each valid line.
C3_ReloadIsIdempotent ==
    [][\A t \in Callers :
          (Returns(t) /\ lastReload.by # "none"
                      /\ lastReload.lines = readLines[t]) =>
              /\ lastReload'.triggers = lastReload.triggers
              /\ lastReload'.triggers = ExpectedTriggers(readLines[t])]_vars

\* line 292: AddJob fails on the schedule of this line
MalformedSchedule(line) ==
    /\ ~Ignored(line)
    /\ Len(Substrings(line)) >= 6
    /\ ~ScheduleOK(ScheduleOf(Substrings(line)))

\* this step is the call of initCron by t scanning a line with a malformed
\* schedule
ScansMalformed(t) ==
    /\ pc[t] = "scan"
    /\ Pending(t) # <<>>
    /\ MalformedSchedule(Head(Pending(t)))
    /\ readLines'[t] = Append(readLines[t], Head(Pending(t)))

\* C10: scanning a line with a malformed schedule registers nothing, leaves
\* every registration as it is and goes on with the next line; and when a
\* call that read such a line starts the scheduler, the started scheduler
\* is the active one and holds a job for each valid line the call read, in
\* the order of the lines, and nothing else.
C10_MalformedScheduleIsSkipped ==
    [][\A t \in Callers :
          /\ ScansMalformed(t) =>
                /\ scheds' = scheds
                /\ runnables' = runnables
                /\ added'[t] = added[t]
                /\ procState' = "up"
                /\ pc'[t] = "scan"
                /\ toRead'[t] = Tail(Pending(t))
          /\ (/\ Returns(t)
              /\ lastReload'.started
              /\ \E i \in 1..Len(readLines[t]) :
                    MalformedSchedule(readLines[t][i])) =>
                /\ scheds'[cronScheduler'].running
                /\ Triggers(runnables', scheds'[cronScheduler'])
                      = ExpectedTriggers(readLines[t])]_vars

(***************************************************************************)
(* The claims about executions.                                            *)
(***************************************************************************)
\* the jobs run as in SpecRun and the file is written once: with a line of
\* five fields first, when the execution is about to start its process, or
\* with the lines it has, when Run has returned
NextRewrite ==
    \/ MainGo
    \/ MainNotify
    \/ MainNew
    \/ \E t \in Callers : InitCronStep(t)
    \/ WatcherAdd
    \/ WatcherEvent
    \/ /\ fsOps < MaxRunWrites
       /\ watching
       /\ \E e \in 1..Len(execs) :
             \/ execs[e].pc = "start" /\ WriteFile(<<LineFiveFields, LineA>>)
             \/ execs[e].pc = "done" /\ WriteFile(RunFile)
    \/ /\ Len(execs) < MaxExec
       /\ \E s \in 1..Len(scheds) : \E i \in 1..Len(scheds[s].entries) : Fire(s, i)
    \/ \E e \in 1..Len(execs) : RunStep(e)
    \/ \E e \in 1..Len(execs) : FlusherSpawn(e)
    \/ \E k \in 1..MaxFlush : FlushStep(k)

SpecRewrite == InitRun /\ [][NextRewrite]_vars

\* C4: a step of a reload leaves every execution in progress that has set
\* the running flag as it is, its
\* position, its process and pipes, the running flag, buffer and cursor of
\* its Runnable, the records logged for it and the flush goroutines, and
\* leaves the process up, so that the execution goes on to the step that
\* clears its running flag.
C4_ReloadLeavesExecutionsAlone ==
    [][(\E t \in Callers : InitCronStep(t)) =>
          \A e \in 1..Len(execs) :
              (execs[e].pc # "done" /\ runnables[execs[e].job].isRunning) =>
                  /\ flushes' = flushes
                  /\ execs'[e] = execs[e]
                  /\ runnables'[execs[e].job] = runnables[execs[e].job]
                  /\ output'[execs[e].job] = output[execs[e].job]
                  /\ procState' = "up"]_vars

\* m is a run of consecutive bytes of rec
Contains(rec, m) ==
    \E i \in 0..(Len(rec) - Len(m)) : SubSeq(rec, i + 1, i + Len(m)) = m

\* nothing works on Runnable j: every execution of it has returned, its
\* periodic flushers have ended and no flush of it is under way
Quiescent(j) ==
    /\ \A e \in 1..Len(execs) :
          execs[e].job = j =>
              execs[e].pc = "done" /\ execs[e].fl \in {"none", "done"}
    /\ \A k \in 1..MaxFlush : flushes[k].job # j

\* a reload by the watcher has returned, and neither the scheduler that
\* cronScheduler refers to nor a running one holds Runnable j: it will not
\* be fired again
Discarded(j) ==
    /\ cronScheduler # Nil
    /\ lastReload.by = "watcher"
    /\ pc.watcher = "listen"
    /\ \A s \in 1..Len(scheds) :
          (scheds[s].running \/ s = cronScheduler) =>
              \A i \in 1..Len(scheds[s].entries) : scheds[s].entries[i] # j

\* C5: once nothing works on a Runnable any more and a reload has discarded
\* it, every message stored in its buffer has appeared in a flush record.
C5_StoredOutputIsFlushed ==
    \A j \in 1..Len(runnables) :
        (Quiescent(j) /\ Discarded(j)) =>
            \A i \in 1..Len(stored[j]) :
                \E r \in 1..Len(output[j]) :
                    Contains(output[j][r], TrimSpace(stored[j][i]))

\* C6: the cursor of every Runnable is within its buffer.
C6_CursorWithinCapacity ==
    \A j \in 1..Len(runnables) :
        0 <= runnables[j].bufferPos /\ runnables[j].bufferPos <= logBufferSize

\* this step is execution e finishing the store of a message for which
\* the check of line 197 found the buffer too full
StoresAfterOverflow(e) ==
    execs[e].pc = "store" /\ execs'[e].pc = "scan" /\ execs[e].ovf

\* a flush of Runnable j has read text: the record is logged, or the flush
\* is between its line 89 and its line 91
ReadByAFlush(j, text) ==
    \/ \E i \in 1..Len(output[j]) : output[j][i] = text
    \/ \E k \in 1..MaxFlush :
          /\ flushes[k].job = j
          /\ flushes[k].pc \in {"reset", "emit"}
          /\ flushes[k].text = text
    \/ \E e \in 1..Len(execs) :
          /\ execs[e].job = j
          /\ execs[e].pc \in {"flushReset", "flushEmit"}
          /\ execs[e].text = text

\* C7: when a message that met a too full buffer has been stored, a flush
\* has read exactly the trimmed content from before it, and the buffer
\* holds the message at offset 0 with the cursor at its length.
C7_OverflowFlushesFirst ==
    [][\A e \in 1..Len(execs) :
          StoresAfterOverflow(e) =>
              LET j == execs[e].job
                  m == execs[e].message
              IN  /\ ReadByAFlush(j, TrimSpace(execs[e].pre))
                  /\ runnables'[j].bufferPos = Len(m)
                  /\ SubSeq(runnables'[j].buffer, 1, Len(m)) = m]_vars

\* execution e has left the loop of lines 190-202 over standard output
LeftStdoutLoop(e) == execs[e].pc \in {"stderr", "wait", "done"}
                     /\ execs[e].child # "none"

\* C8: no byte of a line too long for the buffer gets into a buffer or a
\* record, and an execution leaves the loop over standard output only when
\* it has taken every line the process wrote or is still to write.
C8_OversizeLineIsSkipped ==
    /\ \A j \in 1..Len(runnables) :
          /\ \A i \in 1..logBufferSize : runnables[j].buffer[i] # "x"
          /\ \A r \in 1..Len(output[j]) : ~Contains(output[j][r], <<"x">>)
    /\ \A e \in 1..Len(execs) :
          LeftStdoutLoop(e) =>
              /\ execs[e].outPipe = <<>>
              /\ \A i \in 1..Len(execs[e].script) :
                    execs[e].script[i].stream # "out"

\* this step is execution e failing to find its command
LookPathFails(e) ==
    /\ execs[e].pc = "lookpath"
    /\ execs'[e].pc # "lookpath"
    /\ ~LookPathOK(runnables[execs[e].job].Command)

\* C9: when the command is not found, Run returns: no process, no periodic
\* flusher, no flush goroutine; the Runnables, their records and the
\* schedulers with their entries are as before, so the job is still
\* registered.
C9_UnresolvableCommandHasNoEffect ==
    [][\A e \in 1..Len(execs) :
          LookPathFails(e) =>
              /\ execs'[e] = [execs[e] EXCEPT !.pc = "done"]
              /\ execs'[e].child = "none"
              /\ execs'[e].fl = "none"
              /\ runnables' = runnables
              /\ flushes' = flushes
              /\ output' = output
              /\ scheds' = scheds
              /\ procState' = "up"]_vars

\* C9, witness: a job whose command is not found has been fired twice by a
\* running scheduler that still holds it; both calls have returned and its
\* Runnable is untouched.
C9_Witness ==
    \E e1, e2 \in 1..Len(execs) :
        /\ e1 # e2
        /\ execs[e1].job = execs[e2].job
        /\ execs[e1].pc = "done" /\ execs[e2].pc = "done"
        /\ ~LookPathOK(runnables[execs[e1].job].Command)
        /\ runnables[execs[e1].job] = RunnableOf(LineC)
        /\ \E s \in 1..Len(scheds) :
              /\ scheds[s].running
              /\ \E i \in 1..Len(scheds[s].entries) :
                    scheds[s].entries[i] = execs[e1].job

(***************************************************************************)
(* The parser on its own: the startup load of main, with no watcher event  *)
(* and no execution, over crontab files whose first line ranges over a     *)
(* set of lines and whose second line is LineA.                            *)
(***************************************************************************)
\* "* * * *": four schedule fields, continued by every tail below
FourFields == <<"*", SP, "*", SP, "*", SP, "*">>

\* the tails: every string of at most MaxTail characters of the alphabet
MaxTail == 6
Tails == UNION {[1..n -> {SP, TAB, "*", "a"}] : n \in 0..MaxTail}

\* short lines: blank lines, comments and lines of few fields
MaxShort == 3
ShortLines == UNION {[1..n -> {SP, "#", "*"}] : n \in 0..MaxShort}

\* "*/5 * * * * curl http://example.com"
LineCurl ==
    <<"*", "/", "5", SP, "*", SP, "*", SP, "*", SP, "*", SP,
      "c", "u", "r", "l", SP,
      "h", "t", "t", "p", ":", "/", "/", "e", "x", "a", "m", "p", "l", "e",
      ".", "c", "o", "m">>

\* "0 2 * * * /bin/backup.sh --full"
LineBackup ==
    <<"0", SP, "2", SP, "*", SP, "*", SP, "*", SP,
      "/", "b", "i", "n", "/", "b", "a", "c", "k", "u", "p", ".", "s", "h", SP,
      "-", "-", "f", "u", "l", "l">>

ParseLines ==
    {FourFields \o t : t \in Tails} \cup ShortLines
        \cup {LineCurl, LineBackup, LineA, LineB, LineC, LineBadSchedule,
              LineComment}

InitParse == InitFrom({<<l, LineA>> : l \in ParseLines})

NextParse ==
    \/ MainGo
    \/ MainNotify
    \/ MainNew
    \/ InitCronStep("main")
    \/ InitCronScanErr("main")

SpecParse == InitParse /\ [][NextParse]_vars

(***************************************************************************)
(* The claims about the parser.                                            *)
(***************************************************************************)
\* index of the n-th space of s at or after position i, 0 when there is none
RECURSIVE NthSpace(_, _, _)
NthSpace(s, n, i) ==
    LET k == IndexSpace(s, i)
    IN  IF k = 0 THEN 0
        ELSE IF n = 1 THEN k
        ELSE NthSpace(s, n - 1, k + 1)

\* the number of single-space boundaries of s plus one, at most 7
TokenCount(s) ==
    IF NthSpace(s, 6, 1) # 0 THEN 7
    ELSE 1 + Cardinality({n \in 1..5 : NthSpace(s, n, 1) # 0})

\* this step is initCron, called by t, scanning and parsing the next line
Scans(t) ==
    /\ pc[t] = "scan"
    /\ Pending(t) # <<>>
    /\ toRead'[t] = Tail(Pending(t))
    /\ readLines'[t] = Append(readLines[t], Head(Pending(t)))

\* the line that a step Scans(t) parses
ScannedLine(t) == Head(Pending(t))

\* this step is parseCrontabLine, called by t, creating the Runnable of the
\* line it parsed and adding it to the scheduler
Registers(t) == pc[t] = "addJob" /\ pc'[t] = "scan"

\* the line whose job a step Registers(t) adds
RegisteredLine(t) == readLines[t][Len(readLines[t])]

\* the Runnable the rules give for a normalized line norm of six or more
\* tokens: "0 " and what is before the fifth space, the token behind it,
\* and everything behind the sixth space
ExpectedRunnable(norm) ==
    LET p5 == NthSpace(norm, 5, 1)
        p6 == NthSpace(norm, 6, 1)
    IN  createRunnable(
            SubSeq(norm, p5 + 1, IF p6 = 0 THEN Len(norm) ELSE p6 - 1),
            IF p6 = 0 THEN <<>> ELSE SubSeq(norm, p6 + 1, Len(norm)),
            <<"0", SP>> \o SubSeq(norm, 1, p5 - 1))

\* C11: parsing a line that is not ignored and normalizes to six or more
\* tokens builds the Runnable with schedule "0 " plus the first five tokens,
\* the sixth token as command and the whole remainder, not split again, as
\* argument string (empty without a seventh token); it is registered when
\* the scheduler accepts the schedule: the scan of the line changes no
\* Runnable and no scheduler and goes on to AddJob exactly when the schedule
\* is accepted, AddJob is reached for such a line only, and AddJob creates
\* that Runnable and makes it the last entry of the active scheduler.
C11_SixTokensMakeTheJob ==
    [][\A t \in Callers :
          /\ (Scans(t) /\ ~Ignored(ScannedLine(t))
                       /\ TokenCount(Normalize(ScannedLine(t))) >= 6) =>
                 LET r == ExpectedRunnable(Normalize(ScannedLine(t)))
                 IN  /\ procState' = "up"
                     /\ runnables' = runnables
                     /\ scheds' = scheds
                     /\ pc'[t] = IF ScheduleOK(r.Schedule) THEN "addJob"
                                 ELSE "scan"
          /\ Registers(t) =>
                 LET r == ExpectedRunnable(Normalize(RegisteredLine(t)))
                 IN  /\ ~Ignored(RegisteredLine(t))
                     /\ TokenCount(Normalize(RegisteredLine(t))) >= 6
                     /\ ScheduleOK(r.Schedule)
                     /\ runnables' = Append(runnables, r)
                     /\ scheds' = AddJob(scheds, Len(runnables) + 1)]_vars

\* C11, witness: the load has registered the job of "*/5 * * * * b -v x",
\* whose argument string holds a space, and started the scheduler.
C11_Witness ==
    /\ lastReload.by = "main"
    /\ lastReload.started
    /\ lastReload.lines = <<LineB, LineA>>
    /\ scheds[cronScheduler].running
    /\ Len(scheds[cronScheduler].entries) = 2
    /\ runnables[scheds[cronScheduler].entries[1]].Command = <<"b">>
    /\ runnables[scheds[cronScheduler].entries[1]].Args = <<"-", "v", SP, "x">>
    /\ runnables[scheds[cronScheduler].entries[1]].Schedule
          = <<"0", SP, "*", "/", "5", SP, "*", SP, "*", SP, "*", SP, "*">>

\* "0 */5 * * * *"
CurlSchedule ==
    <<"0", SP, "*", "/", "5", SP, "*", SP, "*", SP, "*", SP, "*">>

\* "curl"
CurlCommand == <<"c", "u", "r", "l">>

\* "http://example.com"
CurlURL ==
    <<"h", "t", "t", "p", ":", "/", "/", "e", "x", "a", "m", "p", "l", "e",
      ".", "c", "o", "m">>

\* C12: parsing "*/5 * * * * curl http://example.com" registers a job with
\* schedule "0 */5 * * * *", command "curl" and argument string
\* "http://example.com": the scan of the line goes on to AddJob, and AddJob
\* for the line creates that Runnable and adds it to the active scheduler.
C12_CurlExample ==
    [][\A t \in Callers :
          /\ (Scans(t) /\ ScannedLine(t) = LineCurl) =>
                 /\ procState' = "up"
                 /\ pc'[t] = "addJob"
          /\ (Registers(t) /\ RegisteredLine(t) = LineCurl) =>
                 /\ runnables' = Append(runnables,
                        createRunnable(CurlCommand, CurlURL, CurlSchedule))
                 /\ scheds' = AddJob(scheds, Len(runnables) + 1)]_vars

\* C12 as stated: parsing "*/5 * * * * curl http://example.com" registers a
\* job with schedule "0 */5 * * * *", command "curl" and an empty argument
\* string.
C12_CurlExampleAsStated ==
    [][\A t \in Callers :
          /\ (Scans(t) /\ ScannedLine(t) = LineCurl) =>
                 /\ procState' = "up"
                 /\ pc'[t] = "addJob"
          /\ (Registers(t) /\ RegisteredLine(t) = LineCurl) =>
                 /\ runnables' = Append(runnables,
                        createRunnable(CurlCommand, <<>>, CurlSchedule))
                 /\ scheds' = AddJob(scheds, Len(runnables) + 1)]_vars

\* C12, witness: the load of a file that starts with the line has returned
\* with the scheduler started, the job of the line its first entry.
C12_Witness ==
    /\ lastReload.by = "main"
    /\ lastReload.started
    /\ lastReload.lines = <<LineCurl, LineA>>
    /\ scheds[cronScheduler].running
    /\ Len(scheds[cronScheduler].entries) = 2
    /\ Trigger(runnables[scheds[cronScheduler].entries[1]])
          = <<CurlSchedule, CurlCommand, CurlURL>>

\* the line is blank once trimmed
BlankLine(line) == \A i \in 1..Len(line) : IsSpace(line[i])

\* the first character of the line that is no white space is "#"
CommentLine(line) ==
    \E i \in 1..Len(line) :
        /\ line[i] = "#"
        /\ \A k \in 1..(i - 1) : IsSpace(line[k])

\* C13: parsing a line that is blank after trimming, begins with "#" after
\* trimming, or normalizes to fewer than five tokens creates no Runnable,
\* leaves every scheduler with the entries it has and lets the reload go on.
C13_DiscardedLinesRegisterNothing ==
    [][\A t \in Callers :
          (Scans(t) /\ (\/ BlankLine(ScannedLine(t))
                        \/ CommentLine(ScannedLine(t))
                        \/ TokenCount(Normalize(ScannedLine(t))) < 5)) =>
              /\ scheds' = scheds
              /\ runnables' = runnables
              /\ procState' = "up"
              /\ pc' = pc]_vars

\* C13, witness: the load of a file whose first line has four tokens has
\* returned with the scheduler started, the job of the second line its
\* only entry.
C13_Witness ==
    /\ lastReload.by = "main"
    /\ lastReload.started
    /\ lastReload.lines = <<FourFields, LineA>>
    /\ scheds[cronScheduler].running
    /\ lastReload.triggers = <<Trigger(RunnableOf(LineA))>>
    /\ Len(runnables) = 1

(***************************************************************************)
(* The watcher: the startup load and the watcher goroutine with writes of  *)
(* the file, events that are no writes, and errors of the watcher.         *)
(***************************************************************************)
WatchFiles == {<<LineA, LineB, LineC>>, <<LineBadSchedule, LineA>>}

InitWatch == Init /\ fileContent \in WatchFiles

NextWatch ==
    \/ MainGo
    \/ MainNotify
    \/ MainNew
    \/ \E t \in Callers : InitCronStep(t)
    \/ WatcherAdd
    \/ WatcherEvent
    \/ WatcherError
    \/ \E f \in WatchFiles : WriteFile(f)
    \/ ChmodFile
    \/ WatchFails

SpecWatch == InitWatch /\ [][NextWatch]_vars

\* C14: the watcher takes an event only between reloads and takes the
\* oldest; it calls initCron for a write event, once, and for no other
\* event; it calls initCron only for a write event; and when it receives an
\* error of the watcher it stays where it is, with the schedulers, the
\* active scheduler, the Runnables and the pending events unchanged and
\* the process alive.
C14_WatcherReloadsOncePerWrite ==
    [][/\ Len(events') < Len(events) =>
              /\ pc.watcher = "listen"
              /\ events' = Tail(events)
              /\ pc'.watcher = IF Head(events) = "write" THEN "stop"
                               ELSE "listen"
       /\ (pc.watcher # "stop" /\ pc'.watcher = "stop") =>
              /\ pc.watcher = "listen"
              /\ events # <<>>
              /\ Head(events) = "write"
              /\ events' = Tail(events)
       /\ errors' < errors =>
              /\ pc' = pc
              /\ scheds' = scheds
              /\ cronScheduler' = cronScheduler
              /\ runnables' = runnables
              /\ events' = events
              /\ procState' = "up"]_vars

\* C14, witness: the watcher has received an error before and now has taken
\* a write event and is at the start of initCron.
C14_Witness ==
    /\ watchErrs = 1
    /\ errors = 0
    /\ pc.watcher = "stop"
    /\ cronScheduler # Nil
    /\ procState = "up"

(***************************************************************************)
(* The pipes: the startup load of a file with a command that writes more   *)
(* lines to standard error than the pipe holds before it writes to         *)
(* standard output, and one execution.                                     *)
(***************************************************************************)
\* "* * * * * d"
LineD == <<"*", SP, "*", SP, "*", SP, "*", SP, "*", SP, "d">>

InitPipes == InitFrom({<<LineD, LineA>>})

NextPipes ==
    \/ MainGo
    \/ MainNotify
    \/ MainNew
    \/ InitCronStep("main")
    \/ /\ Len(execs) < MaxExec
       /\ \E s \in 1..Len(scheds) : \E i \in 1..Len(scheds[s].entries) : Fire(s, i)
    \/ \E e \in 1..Len(execs) : RunStep(e)
    \/ \E e \in 1..Len(execs) : FlusherSpawn(e)
    \/ \E k \in 1..MaxFlush : FlushStep(k)

SpecPipes == InitPipes /\ [][NextPipes]_vars

\* the process of execution e waits for room in the standard error pipe
BlockedOnStderr(e) ==
    /\ execs[e].child = "running"
    /\ execs[e].script # <<>>
    /\ Head(execs[e].script).stream = "err"
    /\ Len(execs[e].errPipe) >= PipeCap

\* Run of execution e waits in scanner.Scan() of line 190 for standard
\* output of a process that has not exited
WaitsForStdout(e) ==
    /\ execs[e].pc = "scan"
    /\ execs[e].outPipe = <<>>
    /\ ~ChildGone(execs[e])

\* C15: Run never waits for standard output while its process waits for
\* room in the standard error pipe: standard error is read as it becomes
\* available.  Where this fails neither Run nor the process takes another
\* step, so Run never logs the lines, never observes the exit and never
\* clears the running flag.
C15_StderrIsReadAsItComes ==
    \A e \in 1..Len(execs) : ~(WaitsForStdout(e) /\ BlockedOnStderr(e))

(***************************************************************************)
(* The claims about the steps of a reload.                                 *)
(***************************************************************************)
\* C16: a call of initCron that returns has stopped the scheduler it found,
\* made a new one, read the file and ends with the new scheduler, the one
\* cronScheduler refers to, started; so also when reading the file fails
\* after it was opened.
C16_ReloadEndsWithSchedulerStarted ==
    [][\A t \in Callers :
          Returns(t) =>
              /\ cronScheduler' # Nil
              /\ scheds'[cronScheduler'].running
              /\ \A s \in 1..Len(scheds') :
                    s # cronScheduler' => ~scheds'[s].running]_vars

(***************************************************************************)
(* The claims about the running flag and the periodic flusher.             *)
(***************************************************************************)
\* this step is the periodic flusher of execution e doing "go r.flush()"
IssuesFlush(e) == execs[e].fl = "sleep" /\ execs'[e].fl = "check"

\* this step starts a flush goroutine in slot k
FlushStarts(k) == flushes[k].pc = "idle" /\ flushes'[k].pc # "idle"

\* C17 as stated: the periodic flusher does "go r.flush()" only while the
\* running flag of its Runnable is true.
C17_FlushOnlyWhileRunning ==
    [][\A e \in 1..Len(execs) :
          IssuesFlush(e) => runnables[execs[e].job].isRunning]_vars

\* C17: the periodic flusher tests the running flag before each sleep: it
\* goes to sleep only when the flag is true and ends when it is false; a
\* flush goroutine is started only by a flusher whose sleep is over, for
\* its own Runnable, one per sleep; a flusher that has ended stays ended.
C17_FlusherTestsBeforeSleep ==
    [][/\ \A e \in 1..Len(execs) :
             /\ (execs[e].fl = "check" /\ execs'[e].fl # "check") =>
                    execs'[e].fl = IF runnables[execs[e].job].isRunning
                                   THEN "sleep" ELSE "done"
             /\ (execs[e].fl = "sleep" /\ execs'[e].fl # "sleep") =>
                    /\ execs'[e].fl = "check"
                    /\ \E k \in 1..MaxFlush :
                          FlushStarts(k) /\ flushes'[k].job = execs[e].job
             /\ execs[e].fl = "done" => execs'[e].fl = "done"
       /\ \A k \in 1..MaxFlush :
             FlushStarts(k) =>
                 /\ \E e \in 1..Len(execs) :
                       IssuesFlush(e) /\ flushes'[k].job = execs[e].job
                 /\ \A k2 \in 1..MaxFlush : k2 # k => flushes'[k2] = flushes[k2]
      ]_vars

\* C17, witness: an execution has cleared the running flag and returned
\* while its periodic flusher, having seen the flag true, is in its sleep:
\* one more flush will be issued.
C17_Witness ==
    \E e \in 1..Len(execs) :
        /\ execs[e].pc = "done"
        /\ execs[e].child = "exited"
        /\ execs[e].fl = "sleep"
        /\ ~runnables[execs[e].job].isRunning

\* C18: parsing a line that is not ignored and normalizes to exactly five
\* tokens completes: the process goes on and initCron stays in its loop
\* over the lines, with the rest of the file still to be read.
C18_FiveTokensDoNotAbort ==
    [][\A t \in Callers :
          (Scans(t) /\ ~BlankLine(ScannedLine(t))
                    /\ ~CommentLine(ScannedLine(t))
                    /\ TokenCount(Normalize(ScannedLine(t))) = 5) =>
              /\ procState' = "up"
              /\ pc'[t] = "scan"]_vars

\* execution e has started its process and has not yet seen it exit
\* (cmd.Start() of line 183 done, cmd.Wait() of line 218 not returned)
BetweenStartAndWait(e) ==
    execs[e].child \in {"running", "exited"} /\ execs[e].pc # "done"

\* C19: while an execution of a Runnable is between the start of its
\* process and the return of cmd.Wait(), the running flag of the Runnable
\* is true.
C19_RunningWhileAnyExecutionRuns ==
    \A e \in 1..Len(execs) :
        BetweenStartAndWait(e) => runnables[execs[e].job].isRunning

(***************************************************************************)
(* The claim about the records of one run.                                 *)
(***************************************************************************)
\* the sequences of seqs one after another
RECURSIVE Flatten(_)
Flatten(seqs) ==
    IF seqs = <<>> THEN <<>> ELSE Head(seqs) \o Flatten(Tail(seqs))

\* what the records recs show of the stream of lines: every record that is
\* not empty, with the final newline that flush trimmed off
RECURSIVE RecordStream(_)
RecordStream(recs) ==
    IF recs = <<>> THEN <<>>
    ELSE (IF Head(recs) = <<>> THEN <<>> ELSE Head(recs) \o <<NL>>)
             \o RecordStream(Tail(recs))

IsPrefix(a, b) == Len(a) <= Len(b) /\ SubSeq(b, 1, Len(a)) = a

\* C20: the records logged for a Runnable, one after another, are the
\* beginning of the sequence of the messages stored in its buffer: every
\* stored line at most once, in the order of arrival, nothing else.
C20_RecordsFollowTheLines ==
    \A j \in 1..Len(runnables) :
        IsPrefix(RecordStream(output[j]), Flatten(stored[j]))

=============================================================================
